---------------------------- MODULE Spec2Model ----------------------------
(***************************************************************************)
(* TravelShare web client: the API client module, the post creation form,  *)
(* the trip planner form and the application shell, as one state machine.  *)
(* The backend is an opaque collaborator: every response it can give is a  *)
(* nondeterministic input of the step that resolves a request.             *)
(***************************************************************************)
EXTENDS Naturals, Sequences, FiniteSets

(***************************************************************************)
(* Bounds of the model.                                                    *)
(***************************************************************************)
\* most requests of the App (GET /posts/ and POST /posts/) in flight at once
MaxInFlight == 2
\* most POST /plan-trip/ requests the model lets be in flight at once
MaxPlanInFlight == 2

(***************************************************************************)
(* Values.  A text is a sequence of characters; '' is << >>.  A character  *)
(* is written as itself or, where it has no escape, by its code point.     *)
(***************************************************************************)
Empty == << >>
\* what the user types into username and body: nothing, a blank, a line
\* break, a no-break space, text, text padded with a tab and a blank
Texts == {Empty, <<" ">>, <<"\n">>, <<"U+00A0">>, <<"a">>, <<"\t", "a", " ">>}
\* what the user types into the search box
Keywords == {Empty, <<"a">>}
\* what the user types into the trip planner's text and number inputs
Words == {Empty, <<"R", "o", "m", "e">>}
Numerals == {Empty, <<"3">>, <<"0">>}

\* JavaScript null / undefined for the image file, image ids and plan texts
Null == "<null>"
Undefined == "<undefined>"

\* a chosen image file of the file input, or null
Files == {Null, "photo.png"}

\* Post: { id, username, body, image_id?, created_at }; only id and the
\* optional image reference matter to the shell's state.
P1 == [id |-> 1, image_id |-> "img-1"]
P2 == [id |-> 2, image_id |-> Null]
P3 == [id |-> 3, image_id |-> "img-3"]
Feeds == {<< >>, <<P1, P2, P3>>, <<P3>>}
ImageIds == {"img-1", "img-3"}

PlanTexts == {"", "Day 1: museum"}

(***************************************************************************)
(* HTTP responses.  status is "ok" (res.ok), "error" (any non-success      *)
(* status) or "network" (fetch itself rejects).  A body is what res.json() *)
(* would parse: valid JSON or not, with or without a posts / plan member.  *)
(***************************************************************************)
NoBody == [valid |-> FALSE, hasPosts |-> FALSE, posts |-> << >>, plan |-> Undefined]
PostsBody(f) == [valid |-> TRUE, hasPosts |-> TRUE, posts |-> f, plan |-> Undefined]
PlanBody(p) == [valid |-> TRUE, hasPosts |-> FALSE, posts |-> << >>, plan |-> p]
\* valid JSON with neither member, such as {} or {"detail": "..."}
OtherBody == PlanBody(Undefined)
NetworkFailure == [status |-> "network", body |-> NoBody]
NoResponse == [status |-> "none", body |-> NoBody]

\* what GET /posts/ can answer
PostsResponses ==
    [status : {"ok"}, body : {PostsBody(f) : f \in Feeds} \cup {OtherBody, NoBody}]
    \cup [status : {"error"}, body : {PostsBody(<<P3>>), OtherBody}]
    \cup {NetworkFailure}
\* what POST /posts/ can answer
CreateResponses ==
    [status : {"ok"}, body : {OtherBody, NoBody}]
    \cup [status : {"error"}, body : {OtherBody}]
    \cup {NetworkFailure}
\* what POST /plan-trip/ can answer
PlanResponses ==
    [status : {"ok"}, body : {PlanBody(p) : p \in PlanTexts} \cup {OtherBody, NoBody}]
    \cup [status : {"error"}, body : {PlanBody("Day 1: museum"), OtherBody}]
    \cup {NetworkFailure}

\* res.ok
ok(res) == res.status = "ok"

\* the outcome of an async function: it returns a value or it throws
Return(v) == [tag |-> "return", value |-> v, message |-> ""]
Throw(msg) == [tag |-> "throw", value |-> NoBody, message |-> msg]

\* res.json(): rejects when the body is not JSON
json(res) == IF res.body.valid THEN Return(res.body) ELSE Throw("SyntaxError")

\* JavaScript truthiness of an id / a text held as a string
Truthy(v) == v # Null /\ v # Undefined /\ v # ""


(***************************************************************************)
(* String.prototype.trim: drops the white space and the line terminators   *)
(* of ECMAScript at both ends.                                             *)
(***************************************************************************)
\* WhiteSpace: tab, VT, FF, space, no-break space, ZWNBSP, the space separators
WhiteSpace ==
    {"\t", "U+000B", "\f", " ", "U+00A0", "U+FEFF", "U+1680",
     "U+2000", "U+2001", "U+2002", "U+2003", "U+2004", "U+2005", "U+2006",
     "U+2007", "U+2008", "U+2009", "U+200A", "U+202F", "U+205F", "U+3000"}
\* LineTerminator: LF, CR, line separator, paragraph separator
LineTerminators == {"\n", "\r", "U+2028", "U+2029"}

IsSpace(c) == c \in WhiteSpace \cup LineTerminators

RECURSIVE trimStart(_)
trimStart(s) ==
    IF s = Empty THEN Empty
    ELSE IF IsSpace(Head(s)) THEN trimStart(Tail(s)) ELSE s

RECURSIVE trimEnd(_)
trimEnd(s) ==
    IF s = Empty THEN Empty
    ELSE IF IsSpace(s[Len(s)]) THEN trimEnd(SubSeq(s, 1, Len(s) - 1)) ELSE s

trim(s) == trimEnd(trimStart(s))

\* a sequence without its i-th element
RemoveAt(s, i) == SubSeq(s, 1, i - 1) \o SubSeq(s, i + 1, Len(s))

(***************************************************************************)
(* API client module.                                                      *)
(***************************************************************************)
API_URL == "http://localhost:8000"

\* the URL fetchPosts requests: absent filters are omitted from the query
fetchPostsUrl(keyword, sentiment) ==
    [base |-> API_URL, path |-> <<"posts", "">>,
     query |-> (IF keyword # Empty THEN {<<"keyword", keyword>>} ELSE {})
               \cup (IF sentiment # Empty THEN {<<"sentiment", sentiment>>} ELSE {})]

\* what the promise of fetchPosts settles to, given the response of its fetch
\* (variant: the status of the response is not looked at)
fetchPostsNoStatusCheck(res) ==
    IF res.status = "network" THEN Throw("TypeError") ELSE json(res)

fetchPosts(res) ==
    IF res.status = "network" THEN Throw("TypeError")
    ELSE IF ~ok(res) THEN Throw("Failed to fetch posts")
    ELSE json(res)

\* the multipart form createPost sends: image only when one was chosen
createPostForm(payload) ==
    {<<"username", payload.username>>, <<"body", payload.body>>}
    \cup (IF payload.image # Null THEN {<<"image", payload.image>>} ELSE {})

\* what the promise of createPost settles to, given the response of its fetch
createPost(res) ==
    IF res.status = "network" THEN Throw("TypeError")
    ELSE IF ~ok(res) THEN Throw("Failed to create post")
    ELSE json(res)

getImageUrl(imageId) ==
    [base |-> API_URL, path |-> <<"images", imageId>>, query |-> {}]

getThumbnailUrl(imageId) ==
    [base |-> API_URL, path |-> <<"images", imageId, "thumbnail">>, query |-> {}]

(***************************************************************************)
(* State.                                                                  *)
(***************************************************************************)
VARIABLES
    mounted,        \* App: the mount effect has run
    posts,          \* App: useState([])
    loading,        \* App: useState(false)
    error,          \* App: useState('')
    search,         \* App: useState('')
    selectedImage,  \* App: useState(null)
    loads,          \* calls of App.load awaiting fetchPosts, oldest first
    creates,        \* calls of App.onCreate awaiting createPost, oldest first
    username,       \* PostForm: useState('')
    body,           \* PostForm: useState('')
    image,          \* PostForm: useState(null)
    fields,         \* TripPlanner: city, concept, budget, days, people
    plan,           \* TripPlanner: useState('')
    planLoading,    \* TripPlanner: useState(false)
    planError,      \* TripPlanner: useState('')
    planCalls,      \* calls of TripPlanner.submit awaiting their fetch
    last,           \* the step just taken: its handler, the response it consumed
    failed          \* the components that surfaced a failure no user step has followed

appVars == <<mounted, posts, loading, error, search, selectedImage, loads, creates>>
formVars == <<username, body, image>>
tripVars == <<fields, plan, planLoading, planError, planCalls>>
vars == <<appVars, formVars, tripVars, last, failed>>

NoCall == [kw |-> Empty, chained |-> FALSE, stale |-> FALSE]
\* a step of the user on the page: the handler run, the element and image id clicked
UserStep(op, target, id) ==
    [op |-> op, res |-> NoResponse, call |-> NoCall, target |-> target, id |-> id]
\* a step of the network: the continuation run, the response and the call it resumes
NetStep(op, res, call) ==
    [op |-> op, res |-> res, call |-> call, target |-> "", id |-> Null]

Init ==
    /\ mounted = FALSE
    /\ posts = << >>
    /\ loading = FALSE
    /\ error = ""
    /\ search = Empty
    /\ selectedImage = Null
    /\ loads = << >>
    /\ creates = << >>
    /\ username = Empty
    /\ body = Empty
    /\ image = Null
    /\ fields = [city |-> Empty, concept |-> Empty, budget |-> Empty,
                 days |-> Empty, people |-> Empty]
    /\ plan = ""
    /\ planLoading = FALSE
    /\ planError = ""
    /\ planCalls = << >>
    /\ last = UserStep("init", "", Null)
    /\ failed = {}

InFlight == Len(loads) + Len(creates)

(***************************************************************************)
(* App.load(kw): up to its await.  chained tells that App.onCreate made    *)
(* the call and awaits it, with PostForm.submit awaiting onCreate in turn. *)
(***************************************************************************)
loadBegin(kw, chained, rest) ==
    /\ loading' = TRUE
    /\ error' = ""
    /\ loads' = Append(rest, [kw |-> kw, chained |-> chained, stale |-> FALSE])

\* data.posts || []
postsOf(data) == IF data.hasPosts THEN data.posts ELSE << >>

\* posts once the awaited fetchPosts of call l has settled to out
\* (variant: an overtaken call's response is dropped)
postsAfterLoadGuarded(cur, l, out) ==
    IF out.tag = "return" /\ ~l.stale THEN postsOf(out.value) ELSE cur

postsAfterLoad(cur, l, out) ==
    IF out.tag = "return" THEN postsOf(out.value) ELSE cur

\* error once the awaited fetchPosts has settled to out
errorAfterLoad(cur, out) ==
    IF out.tag = "return" THEN cur ELSE "Failed to load posts"

\* PostForm.submit after `await onCreate(...)`: setBody(''); setImage(null)
formAfterCreate ==
    /\ body' = Empty
    /\ image' = Null
    /\ UNCHANGED username

\* the calls still in flight once call i has been applied: the older ones
\* have been overtaken by a response that was requested after theirs
Overtake(ls, i) ==
    [j \in 1..Len(ls) |-> IF j < i THEN [ls[j] EXCEPT !.stale = TRUE] ELSE ls[j]]

\* useEffect(() => { load() }, [])
Mount ==
    /\ ~mounted
    /\ mounted' = TRUE
    /\ loadBegin(Empty, FALSE, loads)
    /\ last' = UserStep("mount", "", Null)
    /\ failed' = {}
    /\ UNCHANGED <<posts, search, selectedImage, creates, formVars, tripVars>>

\* onChange of the search box
SetSearch(s) ==
    /\ mounted
    /\ search' = s
    /\ last' = UserStep("setSearch", "", Null)
    /\ failed' = {}
    /\ UNCHANGED <<mounted, posts, loading, error, selectedImage, loads, creates,
                   formVars, tripVars>>

\* onClick of Search: load(search)
Search ==
    /\ mounted
    /\ InFlight < MaxInFlight
    /\ loadBegin(search, FALSE, loads)
    /\ last' = UserStep("search", "", Null)
    /\ failed' = {}
    /\ UNCHANGED <<mounted, posts, search, selectedImage, creates, formVars, tripVars>>

\* onClick of Clear: setSearch(''); load('')
Clear ==
    /\ mounted
    /\ InFlight < MaxInFlight
    /\ search' = Empty
    /\ loadBegin(Empty, FALSE, loads)
    /\ last' = UserStep("clear", "", Null)
    /\ failed' = {}
    /\ UNCHANGED <<mounted, posts, selectedImage, creates, formVars, tripVars>>

\* App.load from its await on: call i gets the response res
LoadSettle(i, res) ==
    /\ i \in 1..Len(loads)
    /\ LET l == loads[i]
           out == fetchPosts(res)
       IN /\ posts' = postsAfterLoad(posts, l, out)
          /\ error' = errorAfterLoad(error, out)
          /\ loading' = FALSE
          /\ loads' = IF out.tag = "return"
                      THEN RemoveAt(Overtake(loads, i), i)
                      ELSE RemoveAt(loads, i)
          /\ IF l.chained THEN formAfterCreate ELSE UNCHANGED formVars
          /\ last' = NetStep("loadSettle", res, l)
          /\ failed' = IF out.tag = "return" THEN failed ELSE failed \cup {"shell"}
    /\ UNCHANGED <<mounted, search, selectedImage, creates, tripVars>>

(***************************************************************************)
(* PostForm.                                                               *)
(***************************************************************************)
SetUsername(s) ==
    /\ mounted
    /\ username' = s
    /\ last' = UserStep("setUsername", "", Null)
    /\ failed' = {}
    /\ UNCHANGED <<appVars, body, image, tripVars>>

SetBody(s) ==
    /\ mounted
    /\ body' = s
    /\ last' = UserStep("setBody", "", Null)
    /\ failed' = {}
    /\ UNCHANGED <<appVars, username, image, tripVars>>

\* onChange of the file input: e.target.files?.[0] || null
SetImage(f) ==
    /\ mounted
    /\ image' = f
    /\ last' = UserStep("setImage", "", Null)
    /\ failed' = {}
    /\ UNCHANGED <<appVars, username, body, tripVars>>

\* the test of PostForm.submit that lets the submission through
\* (variant: the fields are tested without trim)
canSubmitUntrimmed(u, b) == u # Empty /\ b # Empty

canSubmit(u, b) == ~(trim(u) = Empty \/ trim(b) = Empty)

\* the keyword App.onCreate passes to load: `search` of the render whose
\* onCreate PostForm.submit called, call c having captured it
\* (variant: the search text of the moment createPost settles)
onCreateKeywordLatest(c) == search

onCreateKeyword(c) == c.search

\* whether App.onCreate goes on to load, createPost having settled to out
\* (variant: the load is made whatever createPost settled to)
onCreateLoadsAlways(out) == TRUE

onCreateLoads(out) == out.tag = "return"

\* onSubmit of the form: PostForm.submit up to `await onCreate(...)`, that is
\* App.onCreate up to `await createPost(payload)`
Submit ==
    /\ mounted
    /\ IF canSubmit(username, body)
       THEN /\ InFlight < MaxInFlight
            /\ creates' = Append(creates,
                                 [payload |-> [username |-> trim(username),
                                               body |-> trim(body),
                                               image |-> image],
                                  search |-> search])
            /\ last' = UserStep("submit", "", Null)
            /\ failed' = {}
       ELSE /\ creates' = creates
            /\ last' = UserStep("submitBlocked", "", Null)
            /\ failed' = {}
    /\ UNCHANGED <<mounted, posts, loading, error, search, selectedImage, loads,
                   formVars, tripVars>>

\* App.onCreate from `await createPost(payload)` on: call i gets the response res
CreateSettle(i, res) ==
    /\ i \in 1..Len(creates)
    /\ LET c == creates[i]
           out == createPost(res)
       IN /\ creates' = RemoveAt(creates, i)
          /\ IF onCreateLoads(out)
             THEN /\ loadBegin(onCreateKeyword(c), TRUE, loads)
                  /\ UNCHANGED formVars
             ELSE /\ error' = "Failed to create post"
                  /\ formAfterCreate
                  /\ UNCHANGED <<loading, loads>>
          /\ last' = NetStep("createSettle", res,
                             [kw |-> c.search, chained |-> TRUE, stale |-> FALSE])
          /\ failed' = IF out.tag = "return" THEN failed ELSE failed \cup {"shell"}
    /\ UNCHANGED <<mounted, posts, search, selectedImage, tripVars>>

(***************************************************************************)
(* Thumbnails and the full-size image modal.  A click runs the onClick     *)
(* handlers from the clicked element up through its ancestors, until one   *)
(* of them stops the propagation.                                          *)
(***************************************************************************)
\* the elements with an onClick handler from target up to the root
ClickPath(target) ==
    CASE target = "post-image" -> <<"post-image">>
      [] target = "modal" -> <<"modal">>
      [] target = "modal-content" -> <<"modal-content", "modal">>
      [] target = "close-btn" -> <<"close-btn", "modal-content", "modal">>
      [] target = "full-image" -> <<"modal-content", "modal">>

\* onClick of element el: selectedImage after it, and whether it stops the event
\* (variant: modal-content lets the click through to the backdrop)
onClickBubbling(el, sel, id) ==
    CASE el = "post-image" -> [sel |-> id, stop |-> FALSE]
      [] el = "modal" -> [sel |-> Null, stop |-> FALSE]
      [] el = "modal-content" -> [sel |-> sel, stop |-> FALSE]
      [] el = "close-btn" -> [sel |-> Null, stop |-> FALSE]

onClick(el, sel, id) ==
    CASE el = "post-image" -> [sel |-> id, stop |-> FALSE]
      [] el = "modal" -> [sel |-> Null, stop |-> FALSE]
      [] el = "modal-content" -> [sel |-> sel, stop |-> TRUE]
      [] el = "close-btn" -> [sel |-> Null, stop |-> FALSE]

RECURSIVE Dispatch(_, _, _)
Dispatch(path, sel, id) ==
    IF path = << >> THEN sel
    ELSE LET h == onClick(Head(path), sel, id)
         IN IF h.stop THEN h.sel ELSE Dispatch(Tail(path), h.sel, id)

\* the modal is rendered: {selectedImage && (...)}
ModalShown == Truthy(selectedImage)
\* the src of the modal's image
ModalSrc == getImageUrl(selectedImage)
\* post k is rendered with a thumbnail: {p.image_id && (...)}
HasThumbnail(k) == k \in 1..Len(posts) /\ Truthy(posts[k].image_id)

ModalTargets == {"modal", "modal-content", "close-btn", "full-image"}

\* a click on the thumbnail of post k
ClickThumbnail(k) ==
    /\ mounted
    /\ HasThumbnail(k)
    /\ selectedImage' = Dispatch(ClickPath("post-image"), selectedImage, posts[k].image_id)
    /\ last' = UserStep("click", "post-image", posts[k].image_id)
    /\ failed' = {}
    /\ UNCHANGED <<mounted, posts, loading, error, search, loads, creates,
                   formVars, tripVars>>

\* a click on the modal: its backdrop, its content, its close button or its image
ClickModal(target) ==
    /\ mounted
    /\ ModalShown
    /\ selectedImage' = Dispatch(ClickPath(target), selectedImage, Null)
    /\ last' = UserStep("click", target, selectedImage)
    /\ failed' = {}
    /\ UNCHANGED <<mounted, posts, loading, error, search, loads, creates,
                   formVars, tripVars>>

(***************************************************************************)
(* TripPlanner.                                                            *)
(***************************************************************************)
\* disabled={loading} of the submit button
\* (variant: the button stays enabled)
submitDisabledNever == FALSE

submitDisabled == planLoading

\* Number(text) of a text of decimal digits; Number('') is 0
DigitValue(c) ==
    CASE c = "0" -> 0 [] c = "1" -> 1 [] c = "2" -> 2 [] c = "3" -> 3 [] c = "4" -> 4
      [] c = "5" -> 5 [] c = "6" -> 6 [] c = "7" -> 7 [] c = "8" -> 8 [] c = "9" -> 9

RECURSIVE Number(_)
Number(s) ==
    IF s = Empty THEN 0
    ELSE 10 * Number(SubSeq(s, 1, Len(s) - 1)) + DigitValue(s[Len(s)])

\* the JSON body TripPlanner.submit posts
planRequest(f) ==
    [city |-> f.city, concept |-> f.concept, budget |-> f.budget,
     days |-> Number(f.days), people |-> Number(f.people)]

\* the browser's validation of the form, which comes before the submit event:
\* every input is required, people has min="1"
formValid(f) ==
    /\ f.city # Empty /\ f.concept # Empty /\ f.budget # Empty
    /\ f.days # Empty /\ f.people # Empty
    /\ Number(f.people) >= 1

\* the try block of TripPlanner.submit, given the response of its fetch
planFetch(res) ==
    IF res.status = "network" THEN Throw("TypeError")
    ELSE IF ~ok(res) THEN Throw("Failed to get plan")
    ELSE json(res)

\* onChange of the input of field name
SetField(name, v) ==
    /\ mounted
    /\ fields' = [fields EXCEPT ![name] = v]
    /\ last' = UserStep("setField", "", Null)
    /\ failed' = {}
    /\ UNCHANGED <<appVars, formVars, plan, planLoading, planError, planCalls>>

\* onSubmit of the form: TripPlanner.submit up to its await
PlanSubmit ==
    /\ mounted
    /\ ~submitDisabled
    /\ formValid(fields)
    /\ Len(planCalls) < MaxPlanInFlight
    /\ planLoading' = TRUE
    /\ plan' = ""
    /\ planError' = ""
    /\ planCalls' = Append(planCalls, planRequest(fields))
    /\ last' = UserStep("planSubmit", "", Null)
    /\ failed' = {}
    /\ UNCHANGED <<appVars, formVars, fields>>

\* TripPlanner.submit from its await on: call i gets the response res
PlanSettle(i, res) ==
    /\ i \in 1..Len(planCalls)
    /\ LET out == planFetch(res)
       IN /\ plan' = IF out.tag = "return" THEN out.value.plan ELSE plan
          /\ planError' = IF out.tag = "return" THEN planError ELSE "Failed to get plan"
          /\ failed' = IF out.tag = "return" THEN failed ELSE failed \cup {"planner"}
    /\ planLoading' = FALSE
    /\ planCalls' = RemoveAt(planCalls, i)
    /\ last' = NetStep("planSettle", res, NoCall)
    /\ UNCHANGED <<appVars, formVars, fields>>

\* {error && ...} and {plan && ...} of the render
ErrorShown == Truthy(planError)
PlanShown == Truthy(plan)

(***************************************************************************)
(* Specifications.  The components share no state but through onCreate    *)
(* and the feed, so each group of handlers is also run on its own.         *)
(***************************************************************************)
FeedNext ==
    \/ Mount
    \/ \E s \in Keywords : SetSearch(s)
    \/ Search
    \/ Clear
    \/ \E i \in DOMAIN loads, res \in PostsResponses : LoadSettle(i, res)

FormNext ==
    \/ \E s \in Texts : SetUsername(s)
    \/ \E s \in Texts : SetBody(s)
    \/ \E f \in Files : SetImage(f)
    \/ Submit
    \/ \E i \in DOMAIN creates, res \in CreateResponses : CreateSettle(i, res)

ModalNext ==
    \/ \E k \in DOMAIN posts : ClickThumbnail(k)
    \/ \E t \in ModalTargets : ClickModal(t)

TripNext ==
    \/ \E v \in Words : SetField("city", v)
    \/ \E v \in Words : SetField("concept", v)
    \/ \E v \in Numerals : SetField("budget", v)
    \/ \E v \in Numerals : SetField("days", v)
    \/ \E v \in Numerals : SetField("people", v)
    \/ PlanSubmit
    \/ \E i \in DOMAIN planCalls, res \in PlanResponses : PlanSettle(i, res)

Next == FeedNext \/ FormNext \/ ModalNext \/ TripNext

\* the whole page
Spec == Init /\ [][Next]_vars
\* the post form over the mounted shell, the search box left alone
SpecForm ==
    Init /\ [][\/ Mount
               \/ \E i \in DOMAIN loads, res \in PostsResponses : LoadSettle(i, res)
               \/ FormNext]_vars
\* the shell with its thumbnails and modal
SpecModal == Init /\ [][FeedNext \/ ModalNext]_vars
\* the trip planner beside the mounted shell
SpecTrip == Init /\ [][Mount \/ TripNext]_vars

\* the page once the user has filled in both forms, the mount load still in flight
InitFilled ==
    /\ mounted = TRUE
    /\ posts = << >>
    /\ loading = TRUE
    /\ error = ""
    /\ search = Empty
    /\ selectedImage = Null
    /\ loads = <<[kw |-> Empty, chained |-> FALSE, stale |-> FALSE]>>
    /\ creates = << >>
    /\ username = <<"a">>
    /\ body = <<"a">>
    /\ image = Null
    /\ fields = [city |-> <<"R", "o", "m", "e">>, concept |-> <<"R", "o", "m", "e">>,
                 budget |-> <<"3">>, days |-> <<"3">>, people |-> <<"3">>]
    /\ plan = ""
    /\ planLoading = FALSE
    /\ planError = ""
    /\ planCalls = << >>
    /\ last = UserStep("setField", "", Null)
    /\ failed = {}

CallsNext ==
    \/ Mount
    \/ Search
    \/ Clear
    \/ \E i \in DOMAIN loads, res \in PostsResponses : LoadSettle(i, res)
    \/ \E s \in Texts : SetBody(s)
    \/ Submit
    \/ \E i \in DOMAIN creates, res \in CreateResponses : CreateSettle(i, res)
    \/ PlanSubmit
    \/ \E i \in DOMAIN planCalls, res \in PlanResponses : PlanSettle(i, res)

ShellNext ==
    \/ FeedNext
    \/ \E s \in Texts : SetBody(s)
    \/ Submit
    \/ \E i \in DOMAIN creates, res \in CreateResponses : CreateSettle(i, res)

\* the feed with searches and post creations, from the fresh page and from
\* the filled-in page
SpecShell == (Init \/ InitFilled) /\ [][ShellNext]_vars
\* the three endpoints together, from the fresh page and from the filled-in page
SpecCalls == (Init \/ InitFilled) /\ [][CallsNext]_vars

(***************************************************************************)
(* Properties.                                                             *)
(***************************************************************************)
\* a text that is empty or made of white space and line breaks only
Letters == {"a"}
IsBlank(s) == \A i \in DOMAIN s : s[i] \notin Letters
\* a text with a letter at either end
IsTrimmed(s) == s # Empty /\ s[1] \in Letters /\ s[Len(s)] \in Letters
\* the steps that are an action of the user (the mount included)
UserOps == {"mount", "setSearch", "search", "clear", "setUsername", "setBody",
            "setImage", "submit", "submitBlocked", "click", "setField", "planSubmit"}
HttpError(res) == res.status = "error"

\* C1: a response with a non-success status makes the call fail and its body
\* is never applied: fetchPosts, createPost and the plan request throw on it;
\* the load leaves posts as they were and shows its error, the creation shows
\* its error and starts no load, the planner shows its error and sets no plan.
C1_NonSuccessFails ==
    /\ \A res \in PostsResponses : HttpError(res) => fetchPosts(res).tag = "throw"
    /\ \A res \in CreateResponses : HttpError(res) => createPost(res).tag = "throw"
    /\ \A res \in PlanResponses : HttpError(res) => planFetch(res).tag = "throw"
    /\ [][/\ (last'.op = "loadSettle" /\ HttpError(last'.res))
                => (posts' = posts /\ error' = "Failed to load posts")
          /\ (last'.op = "createSettle" /\ HttpError(last'.res))
                => (posts' = posts /\ loads' = loads /\ error' = "Failed to create post")
          /\ (last'.op = "planSettle" /\ HttpError(last'.res))
                => (plan' = plan /\ plan' = "" /\ planError' = "Failed to get plan")]_vars

\* a failed load whose body carried posts other than those shown, beside a
\* failed plan request
C1_Witness ==
    /\ last.op = "loadSettle" /\ HttpError(last.res)
    /\ last.res.body.hasPosts /\ posts # last.res.body.posts
    /\ error = "Failed to load posts"
    /\ planError = "Failed to get plan" /\ plan = ""

\* C2: a submit of the post form calls onCreate only when username and body
\* are both non-blank; a submit with a blank one calls nothing and changes
\* no field; what onCreate gets is the trimmed username and body.
C2_BlankSubmitBlocked ==
    [][(last'.op \in {"submit", "submitBlocked"})
          => /\ (creates' # creates) <=> ~(IsBlank(username) \/ IsBlank(body))
             /\ (IsBlank(username) \/ IsBlank(body))
                  => UNCHANGED <<appVars, formVars, tripVars>>
             /\ (creates' # creates)
                  => /\ Len(creates') = Len(creates) + 1
                     /\ IsTrimmed(creates'[Len(creates')].payload.username)
                     /\ IsTrimmed(creates'[Len(creates')].payload.body)
                     /\ UNCHANGED formVars]_vars

\* a submit whose body is a line break, under a padded username, was let fall
C2_Witness ==
    /\ last.op = "submitBlocked"
    /\ body = <<"\n">> /\ username = <<"\t", "a", " ">>
    /\ creates = << >>

\* C3: the form is cleared only when the creation succeeded: a failed
\* createPost leaves body and image as entered; the completion of a
\* successful creation resets body and image and keeps username.
C3_ClearedOnlyOnSuccess ==
    [][/\ (last'.op = "createSettle" /\ last'.res.status # "ok")
            => (body' = body /\ image' = image)
       /\ (last'.op = "loadSettle" /\ last'.call.chained)
            => (body' = Empty /\ image' = Null /\ username' = username)]_vars

\* C4: a successful createPost is followed by exactly one fetchPosts, whose
\* keyword is the search text of the moment the form was submitted.
C4_RefetchWithSubmitTimeFilter ==
    [][/\ (last'.op = "submit")
            => creates'[Len(creates')].search = search
       /\ (last'.op = "createSettle")
            => IF last'.res.status = "ok" /\ last'.res.body.valid
               THEN loads' = Append(loads, [kw |-> last'.call.kw, chained |-> TRUE,
                                            stale |-> FALSE])
               ELSE loads' = loads]_vars

\* the refetch of a creation goes out with the keyword of submit time while
\* the search box holds another
C4_Witness ==
    /\ last.op = "createSettle"
    /\ loads # << >>
    /\ loads[Len(loads)].chained
    /\ loads[Len(loads)].kw = last.call.kw
    /\ loads[Len(loads)].kw # search

\* C5: a submit clears plan and error, and once the request has settled
\* exactly one of plan and error is shown.
C5_ExactlyOneShown ==
    /\ (last.op = "planSubmit") => (plan = "" /\ planError = "")
    /\ (last.op = "planSettle") => (PlanShown /\ ~ErrorShown) \/ (~PlanShown /\ ErrorShown)

\* C6: a load has no generation check: every successful response is applied
\* to posts, also the one of a call that a younger call's response overtook.
C6_StaleResponseApplied ==
    (last.op = "loadSettle" /\ last.res.status = "ok" /\ last.res.body.valid)
        => posts = (IF last.res.body.hasPosts THEN last.res.body.posts ELSE << >>)

\* the response of the older call was applied after the younger call's, and
\* it is what the page shows with nothing left in flight
C6_Witness ==
    /\ last.op = "loadSettle" /\ last.call.stale
    /\ last.res.status = "ok" /\ last.res.body.hasPosts
    /\ posts = last.res.body.posts /\ posts # << >>
    /\ loads = << >>

\* C7: a click on a thumbnail opens the modal on the full-size URL of that
\* post's image; the modal is shown exactly while selectedImage is set; a
\* click on the backdrop or the close button closes it, a click elsewhere in
\* its content leaves it, and nothing else changes the selected image.
C7_ModalFollowsClicks ==
    /\ [](ModalShown <=> selectedImage \in ImageIds)
    /\ [](selectedImage \in ImageIds \cup {Null})
    /\ [][/\ (last'.op = "click" /\ last'.target = "post-image")
               => /\ selectedImage' = last'.id
                  /\ \E k \in DOMAIN posts : posts[k].image_id = last'.id
                  /\ ModalShown'
                  /\ ModalSrc' = [base |-> API_URL, path |-> <<"images", last'.id>>,
                                  query |-> {}]
          /\ (last'.op = "click" /\ last'.target \in {"modal", "close-btn"})
               => (selectedImage' = Null /\ ~ModalShown')
          /\ (last'.op = "click" /\ last'.target \in {"modal-content", "full-image"})
               => (selectedImage' = selectedImage /\ ModalShown')
          /\ (last'.op # "click") => selectedImage' = selectedImage]_vars

\* the thumbnail of the third of three posts was clicked and its image is open
C7_Witness ==
    /\ last.op = "click" /\ last.target = "post-image" /\ last.id = "img-3"
    /\ selectedImage = "img-3"
    /\ posts = <<P1, P2, P3>>

\* the requests each step starts and ends: a user action starts one request
\* of one endpoint, a successful createPost starts the one refetch, and no
\* settled call, failed or not, starts anything else
NoRetry ==
    /\ (last'.op \in {"mount", "search", "clear"})
          => /\ Len(loads') = Len(loads) + 1
             /\ creates' = creates /\ planCalls' = planCalls
    /\ (last'.op = "submit")
          => /\ Len(creates') = Len(creates) + 1
             /\ loads' = loads /\ planCalls' = planCalls
    /\ (last'.op = "planSubmit")
          => /\ Len(planCalls') = Len(planCalls) + 1
             /\ loads' = loads /\ creates' = creates
    /\ (last'.op = "createSettle")
          => /\ Len(creates') = Len(creates) - 1
             /\ planCalls' = planCalls
             /\ IF last'.res.status = "ok" /\ last'.res.body.valid
                THEN Len(loads') = Len(loads) + 1
                ELSE loads' = loads /\ error' = "Failed to create post"
    /\ (last'.op = "loadSettle")
          => /\ Len(loads') = Len(loads) - 1
             /\ creates' = creates /\ planCalls' = planCalls
             /\ (last'.res.status # "ok" \/ ~last'.res.body.valid)
                  => error' = "Failed to load posts"
    /\ (last'.op = "planSettle")
          => /\ Len(planCalls') = Len(planCalls) - 1
             /\ loads' = loads /\ creates' = creates
             /\ (last'.res.status # "ok" \/ ~last'.res.body.valid)
                  => planError' = "Failed to get plan"
    /\ (last'.op \notin {"mount", "search", "clear", "submit", "planSubmit",
                         "createSettle", "loadSettle", "planSettle"})
          => (loads' = loads /\ creates' = creates /\ planCalls' = planCalls)

\* C8 as stated: nothing is retried, and the error message of a failure
\* stays until the user does something more.
C8_ErrorUntilUserAction ==
    /\ [][NoRetry]_vars
    /\ [](("shell" \in failed) => error # "")
    /\ [](("planner" \in failed) => planError # "")

\* C8 as amended: nothing is retried, and an error message stays until the
\* next load (a user's, or the refetch of a creation that succeeded) or the
\* next plan submission begins.
C8_ErrorUntilNextCall ==
    [][/\ NoRetry
       /\ (error # "" /\ error' = "") => Len(loads') = Len(loads) + 1
       /\ (error # "" /\ error' = "")
             => (last'.op \in {"search", "clear"}
                 \/ (last'.op = "createSettle" /\ last'.res.status = "ok"))
       /\ (planError # "" /\ planError' = "") => last'.op = "planSubmit"]_vars

\* a creation failed beside a failed plan request, nothing was sent again
C8_Witness ==
    /\ last.op = "createSettle" /\ last.res.status # "ok"
    /\ error = "Failed to create post"
    /\ planError = "Failed to get plan"
    /\ loads = << >> /\ creates = << >> /\ planCalls = << >>

\* C9: loading is true exactly while a load is in flight.
C9_LoadingWhileInFlight == loading <=> (loads # << >>)

\* C10: at most one plan request is in flight; the button is disabled exactly
\* while loading, loading is true exactly while the request is in flight,
\* and loading falls only when the request settles.
C10_OnePlanRequest ==
    /\ [](Len(planCalls) <= 1)
    /\ [](submitDisabled <=> planLoading)
    /\ [](planLoading <=> (planCalls # << >>))
    /\ [][(planLoading /\ ~planLoading') => last'.op = "planSettle"]_vars
    /\ [][(last'.op = "planSettle") => ~planLoading']_vars

\* a request is in flight and the form is still valid: only the disabled
\* button keeps a second one from starting
C10_Witness ==
    /\ planLoading /\ Len(planCalls) = 1
    /\ formValid(fields)
    /\ last.op = "planSubmit"
=============================================================================
